---------------------------- MODULE Spec2Model ----------------------------
(***************************************************************************)
(* The Aura HUD prototype: the session registry                            *)
(* (prototype/src/hooks/useSessionManager.ts), the revision of it that     *)
(* keeps per-session stale timers (second half of                          *)
(* prototype/src/hooks/useDrag.ts), the App component that shows the       *)
(* registry (prototype/src/App.tsx, with hooks/useDrag.ts) and the         *)
(* Indicator and SessionRow components.                                    *)
(* The agent adapters and the recent-activity queue of the daemon, which   *)
(* have no code among the sources, follow the specification and the        *)
(* feature files.                                                          *)
(*                                                                         *)
(* The registry is the React state `sessions`: an array of Session         *)
(* objects.  handleEvent(msg) dispatches on msg.type and replaces the      *)
(* array by the result of a functional update; clearAll and removeSession  *)
(* are the two user-initiated mutators.  Each case of the switch is one    *)
(* action below, and its functional update is one operator.                *)
(*                                                                         *)
(* An optional field that is undefined in the TypeScript object is         *)
(* modelled by Undefined (strings) or NoTime (timestamps; Date.now() is    *)
(* never 0).  cwd, name and toolLabel are display payload that no update   *)
(* reads; they are left out of the records.                                *)
(***************************************************************************)
EXTENDS Integers, Sequences, FiniteSets, TLC

\* ------------------------------------------------------------------ bounds
\* Largest value Date.now() returns (wall-clock readings are 1..MaxTime).
MaxTime == 1

\* ----------------------------------------------------------- input domains
\* msg.sessionId
SessionIds == {"s1", "s2"}
\* msg.toolId
ToolIds == {"t1", "t2"}
\* msg.toolName
ToolNames == {"Bash"}
\* Date.now()
Times == 1..MaxTime

\* Longest session array handed to the Indicator on its own.
MaxSnapshot == 3

\* an optional string field that is absent
Undefined == "undefined"
\* an optional timestamp that is absent
NoTime == 0

VARIABLES
  sessions,   \* useState<Session[]>: the registry, in insertion order
  hist,       \* per session id, what handleEvent has seen of its lifecycle:
              \* "never" a SessionStart, "started", or "ended" by SessionEnd
  isExpanded,        \* App: useState(false)
  prevSessionCount,  \* App: useRef(0), sessions.length when the effect last ran
  isDragging,        \* useDrag of the indicator: useState(false)
  hasMoved,          \* useDrag of the indicator: useRef(false)
  wasDragged,        \* useDrag of the indicator: useState(false)
  position,          \* useDrag of the indicator: useState(initialPosition)
  positionStart,     \* useDrag of the indicator: useRef({ x: 0, y: 0 })
  listDrag,          \* useDrag of the session list: its position, isDragging,
                     \* wasDragged, positionStart and hasMoved
  rowPlaceholder,    \* SessionRow: placeholderRef.current of the mounted row of
                     \* each session id, Unmounted when there is no such row
  shownPlaceholder,  \* per session id, the first placeholder text a row has
                     \* displayed for it, Unmounted while none has
  snapshot,          \* Indicator: the sessions prop
  indicator,         \* Indicator: indicatorState of the last render
  staleTimers,       \* timer revision: useRef(Map<sessionId, timeout handle>)
  epoch,             \* per session id, parity of the handleEvent calls for it
  sinceEvent,        \* per session id, the ticks since handleEvent was last
                     \* called for it, counted up to StaleTimeoutTicks
  superseded,        \* per session id, whether the last handleEvent call
                     \* for it cancelled a timeout that had partly run down
  adapterIn,         \* the hook message or the rollout file an adapter was given
  parsed,            \* whether the adapter has turned adapterIn into AgentEvents
  pending,           \* the AgentEvents emitted and not yet applied, in order
  trace,             \* the AgentEvents applied to agentSessions, in order
  agentSessions,     \* the daemon's registry the AgentEvents are applied to
  toolIndex,         \* SessionRow of one session: useState(0)
  effectsDue,        \* SessionRow: its last render is committed and the
                     \* effects of that render have not run yet
  labelledTools,     \* the daemon's running tools of one session, with labels
  recentActivity,    \* the recent-activity queue of that session
  completedLabels,   \* every label pushed to the queue so far, in order
  lastInput          \* the last input App was given: a mouse event on the
                     \* indicator, its click, the Toggle View control or a
                     \* session event

registryVars == <<sessions, hist>>
positionVars == <<position, positionStart, listDrag>>
appVars == <<isExpanded, prevSessionCount, isDragging, hasMoved, wasDragged,
             positionVars>>
rowVars == <<rowPlaceholder, shownPlaceholder>>
indicatorVars == <<snapshot, indicator>>
timerVars == <<staleTimers, epoch, sinceEvent, superseded>>
adapterVars == <<adapterIn, parsed, pending, trace, agentSessions>>
cycleVars == <<toolIndex, effectsDue>>
activityVars == <<labelledTools, recentActivity, completedLabels>>
viewVars == <<cycleVars, activityVars, lastInput>>

vars == <<sessions, hist, isExpanded, prevSessionCount, isDragging, hasMoved,
          wasDragged, position, positionStart, listDrag, rowPlaceholder, shownPlaceholder, snapshot, indicator,
          staleTimers, epoch, sinceEvent, superseded,
          adapterIn, parsed, pending, trace, agentSessions,
          toolIndex, effectsDue, labelledTools, recentActivity, completedLabels,
          lastInput>>

\* ------------------------------------------------------- array utilities
\* prev.some(s => s.sessionId === sessionId)
HasSession(prev, sid) == \E i \in 1..Len(prev) : prev[i].sessionId = sid

\* s.runningTools.some(t => t.toolId === toolId)
HasTool(s, tid) == \E i \in 1..Len(s.runningTools) : s.runningTools[i].toolId = tid

\* prev.filter(s => s.sessionId !== sessionId)
FilterOut(prev, sid) == SelectSeq(prev, LAMBDA s : s.sessionId # sid)

\* ------------------------------------------------ per-case state updates
\* case 'SessionStart': the object appended for a new session
NewSession(sid) ==
  [sessionId |-> sid, state |-> "running", runningTools |-> <<>>,
   permissionTool |-> Undefined, stoppedAt |-> NoTime, staleAt |-> NoTime]

\* mutant: the existence check is dropped
SessionStartUpdateNoCheck(prev, sid) == Append(prev, NewSession(sid))

SessionStartUpdate(prev, sid) ==
  IF HasSession(prev, sid) THEN prev ELSE Append(prev, NewSession(sid))

\* mutant: the duplicate check is dropped
PreToolUseSessionNoDedup(s, tid, tname) ==
  [s EXCEPT !.state = "running",
            !.runningTools = Append(@, [toolId |-> tid, toolName |-> tname])]

\* case 'PreToolUse'
PreToolUseSession(s, tid, tname) ==
  IF HasTool(s, tid) THEN s
  ELSE [s EXCEPT !.state = "running",
                 !.runningTools = Append(@, [toolId |-> tid, toolName |-> tname])]

PreToolUseUpdate(prev, sid, tid, tname) ==
  [i \in 1..Len(prev) |->
     IF prev[i].sessionId = sid THEN PreToolUseSession(prev[i], tid, tname) ELSE prev[i]]

\* mutant: the last entry is moved into the place of the one removed
PostToolUseSessionSwapRemove(s, tid) ==
  IF HasTool(s, tid)
    THEN LET n == Len(s.runningTools)
             k == CHOOSE j \in 1..n : s.runningTools[j].toolId = tid
         IN  [s EXCEPT !.runningTools =
                [j \in 1..(n - 1) |-> IF j = k THEN s.runningTools[n]
                                      ELSE s.runningTools[j]]]
    ELSE s

\* mutant: removal by position, splice(findIndex(...), 1); an id that is not
\* found gives position -1, which removes the last entry
PostToolUseSessionSplice(s, tid) ==
  IF HasTool(s, tid)
    THEN [s EXCEPT !.runningTools = SelectSeq(@, LAMBDA t : t.toolId # tid)]
    ELSE [s EXCEPT !.runningTools = SubSeq(@, 1, Len(@) - 1)]

\* case 'PostToolUse'
PostToolUseSession(s, tid) ==
  [s EXCEPT !.runningTools = SelectSeq(@, LAMBDA t : t.toolId # tid)]

PostToolUseUpdate(prev, sid, tid) ==
  [i \in 1..Len(prev) |->
     IF prev[i].sessionId = sid THEN PostToolUseSession(prev[i], tid) ELSE prev[i]]

\* mutant: a session already in attention keeps the permissionTool it has
PermissionRequestSessionKeepsFirst(s, tname) ==
  IF s.state = "attention" THEN s
  ELSE [s EXCEPT !.state = "attention", !.permissionTool = tname]

\* case 'PermissionRequest'
PermissionRequestSession(s, tname) ==
  [s EXCEPT !.state = "attention", !.permissionTool = tname]

PermissionRequestUpdate(prev, sid, tname) ==
  [i \in 1..Len(prev) |->
     IF prev[i].sessionId = sid THEN PermissionRequestSession(prev[i], tname) ELSE prev[i]]

\* mutant: the running tools are kept
StopSessionKeepsTools(s, now) == [s EXCEPT !.state = "idle", !.stoppedAt = now]

\* case 'Stop'
StopSession(s, now) ==
  [s EXCEPT !.state = "idle", !.runningTools = <<>>, !.stoppedAt = now]

\* mutant: every session is stopped, the id is not looked at
StopUpdateStopsAll(prev, sid, now) ==
  [i \in 1..Len(prev) |-> StopSession(prev[i], now)]

StopUpdate(prev, sid, now) ==
  [i \in 1..Len(prev) |->
     IF prev[i].sessionId = sid THEN StopSession(prev[i], now) ELSE prev[i]]

\* mutant: compaction drops the running tools
PreCompactSessionClearsTools(s) ==
  [s EXCEPT !.state = "compacting", !.runningTools = <<>>]

\* case 'PreCompact'
PreCompactSession(s) == [s EXCEPT !.state = "compacting"]

PreCompactUpdate(prev, sid) ==
  [i \in 1..Len(prev) |->
     IF prev[i].sessionId = sid THEN PreCompactSession(prev[i]) ELSE prev[i]]

\* mutant: the filter keeps the matching entries, === for !==
SessionEndUpdateKeepsMatch(prev, sid) == SelectSeq(prev, LAMBDA s : s.sessionId = sid)

\* case 'SessionEnd'
SessionEndUpdate(prev, sid) == FilterOut(prev, sid)

\* mutant: activity for an id that is not tracked creates the session
ActivityUpdateCreates(prev, sid) ==
  IF HasSession(prev, sid)
    THEN [i \in 1..Len(prev) |->
           IF prev[i].sessionId = sid THEN [prev[i] EXCEPT !.state = "running"]
           ELSE prev[i]]
    ELSE Append(prev, NewSession(sid))

\* case 'Notification' / 'SubagentStop' / 'UserPromptSubmit'
ActivitySession(s) == [s EXCEPT !.state = "running"]

ActivityUpdate(prev, sid) ==
  [i \in 1..Len(prev) |->
     IF prev[i].sessionId = sid THEN ActivitySession(prev[i]) ELSE prev[i]]

\* mutant: a session that goes stale is dropped from the array
StaleUpdateRemoves(prev, sid, now) == SelectSeq(prev, LAMBDA s : s.sessionId # sid)

\* case 'Stale'
StaleSession(s, now) == [s EXCEPT !.state = "stale", !.staleAt = now]

StaleUpdate(prev, sid, now) ==
  [i \in 1..Len(prev) |->
     IF prev[i].sessionId = sid THEN StaleSession(prev[i], now) ELSE prev[i]]

\* mutant: a session that is running is kept
RemoveSessionUpdateKeepsRunning(prev, sid) ==
  SelectSeq(prev, LAMBDA s : s.sessionId # sid \/ s.state = "running")

\* removeSession
RemoveSessionUpdate(prev, sid) == FilterOut(prev, sid)

\* msg.type: the hook names the switch has a case for, the two Claude Code
\* hooks it has none for, and the internal Stale event
EventTypes ==
  {"SessionStart", "PreToolUse", "PostToolUse", "PostToolUseFailure",
   "PermissionRequest", "Stop", "PreCompact", "SessionEnd", "Notification",
   "SubagentStart", "SubagentStop", "UserPromptSubmit", "Stale"}

\* handleEvent: switch (type), the array setSessions leaves; a type with no
\* case reaches the end of the switch and setSessions is not called
handleEvent(prev, type, sid, tid, tname, now) ==
  CASE type = "SessionStart"      -> SessionStartUpdate(prev, sid)
    [] type = "PreToolUse"        -> PreToolUseUpdate(prev, sid, tid, tname)
    [] type = "PostToolUse"       -> PostToolUseUpdate(prev, sid, tid)
    [] type = "PermissionRequest" -> PermissionRequestUpdate(prev, sid, tname)
    [] type = "Stop"              -> StopUpdate(prev, sid, now)
    [] type = "PreCompact"        -> PreCompactUpdate(prev, sid)
    [] type = "SessionEnd"        -> SessionEndUpdate(prev, sid)
    [] type \in {"Notification", "SubagentStop", "UserPromptSubmit"}
                                  -> ActivityUpdate(prev, sid)
    [] type = "Stale"             -> StaleUpdate(prev, sid, now)
    [] OTHER                      -> prev

\* ------------------------------------------------------ App (App.tsx)
\* mutant: the auto-collapse branch is dropped
AutoExpandNeverCollapses(expanded, hadCount, count) ==
  IF ~(hadCount > 0) /\ count > 0 THEN TRUE ELSE expanded

\* mutant: every growth of the session count expands the list
AutoExpandOnEveryStart(expanded, hadCount, count) ==
  IF count > hadCount THEN TRUE
  ELSE IF hadCount > 0 /\ ~(count > 0) THEN FALSE
  ELSE expanded

\* the effect on [sessions.length]: hadCount is prevSessionCount.current
AutoExpand(expanded, hadCount, count) ==
  IF ~(hadCount > 0) /\ count > 0 THEN TRUE
  ELSE IF hadCount > 0 /\ ~(count > 0) THEN FALSE
  ELSE expanded

\* {isExpanded && sessions.length > 0 && (<SessionList ... />)}
ListVisible(expanded, reg) == expanded /\ Len(reg) > 0

\* mutant: the click toggles whether or not the indicator was dragged
ToggleViewExpandedIgnoresDrag(expanded, dragged) == ~expanded

\* handleToggleView: isExpanded after the call
ToggleViewExpanded(expanded, dragged) == IF dragged THEN expanded ELSE ~expanded

\* ------------------------------------------------- useDrag (useDrag.ts)
DRAG_THRESHOLD == 3

\* e.clientX - dragStart.current.x, in pixels
Deltas == {-4, 0, 3, 4}

\* Math.abs
Abs(x) == IF x < 0 THEN -x ELSE x

\* handleMouseMove: hasMoved.current after the call
MouseMoveHasMoved(moved, dx, dy) ==
  IF ~moved /\ (Abs(dx) > DRAG_THRESHOLD \/ Abs(dy) > DRAG_THRESHOLD)
    THEN TRUE ELSE moved

\* useDrag(): initialPosition of the indicator, as <<x, y>>
InitialIndicatorPosition == <<0, 0>>

\* useDrag({ x: 0, y: 48 }): initialPosition of the session list
InitialListPosition == <<0, 48>>

\* the positions followed lie at most this far from the initial one on each axis
MaxOffset == 4

WithinReach(pos, initial) ==
  Abs(pos[1] - initial[1]) <= MaxOffset /\ Abs(pos[2] - initial[2]) <= MaxOffset

\* <<dx, dy>> of the mousemove events whose positions are followed: the
\* pointer is where it was pressed, or to its right, its left or above it
DragMoves == {<<0, 0>>, <<3, 0>>, <<4, 0>>, <<-4, 0>>, <<0, -4>>}

\* mutant: the document listeners stay attached after the drag has ended
ListeningAlways(dragging) == TRUE

\* useEffect(..., [isDragging]): handleMouseMove and handleMouseUp are on
\* document exactly while isDragging
Listening(dragging) == dragging

\* handleMouseMove: the position it hands to setPosition
MouseMovePosition(start, dx, dy) == <<start[1] + dx, start[2] + dy>>

\* handleMouseUp: wasDragged after the call
MouseUpWasDragged(moved, dragged) == IF moved THEN TRUE ELSE dragged

\* ------------------------------------------- SessionRow (SessionRow.tsx)
\* PLACEHOLDER_TEXTS
PlaceholderTexts ==
  {"thinking...", "drafting...", "building...", "planning...",
   "analyzing...", "pondering...", "processing...", "reasoning..."}

\* no row is mounted / no placeholder has been displayed
Unmounted == "unmounted"

\* the last branch of the row's subtitle, {placeholderRef.current}: no state
\* line applies and there is no current tool (runningTools[toolIndex] with
\* runningTools empty)
SubtitleIsPlaceholder(s) ==
  /\ ~(s.state = "idle" /\ s.stoppedAt # NoTime)
  /\ ~(s.state = "stale" /\ s.staleAt # NoTime)
  /\ s.state # "attention"
  /\ s.state # "compacting"
  /\ s.runningTools = <<>>

\* SessionList is rendered and maps a session with this id to a SessionRow
RowMounted(expanded, reg, sid) == ListVisible(expanded, reg) /\ HasSession(reg, sid)

\* the mounted row of sid displays its placeholder
ShowsPlaceholder(expanded, reg, sid) ==
  /\ RowMounted(expanded, reg, sid)
  /\ \E i \in 1..Len(reg) : reg[i].sessionId = sid /\ SubtitleIsPlaceholder(reg[i])

\* the effects of a render, in order: toolIndex once they have run.  The
\* first sets 0 when runningTools.length <= 1 (and otherwise starts the
\* interval); the second sets 0 when toolIndex >= runningTools.length
EffectsToolIndex(idx, len) ==
  IF len <= 1 THEN 0 ELSE IF idx >= len THEN 0 ELSE idx

\* the interval's callback: setToolIndex(prev => (prev + 1) % length)
IntervalToolIndex(idx, len) == (idx + 1) % len

\* currentTool = runningTools[toolIndex] is an element of the array; it is
\* undefined when toolIndex is not below the length
HasCurrentTool(tools, idx) == idx < Len(tools)

\* --------------------------------------------- Indicator (Indicator.tsx)
\* mutant: the two checks in the other order, waiting before attention
getIndicatorStateWaitingFirst(list) ==
  LET states == [i \in 1..Len(list) |-> list[i].state] IN
    IF Len(list) = 0 THEN "idle"
    ELSE IF \E i \in 1..Len(states) : states[i] = "waiting" THEN "waiting"
    ELSE IF \E i \in 1..Len(states) : states[i] = "attention" THEN "attention"
    ELSE "running"

\* mutant: the first session decides, states[0] for states.includes
getIndicatorStateOfFirst(list) ==
  LET states == [i \in 1..Len(list) |-> list[i].state] IN
    IF Len(list) = 0 THEN "idle"
    ELSE IF states[1] = "attention" THEN "attention"
    ELSE IF states[1] = "waiting" THEN "waiting"
    ELSE "running"

\* every state a Session object can carry
SessionStates == {"running", "idle", "attention", "waiting", "compacting", "stale"}

\* the session arrays the Indicator is rendered with
Snapshots ==
  UNION {[1..n -> [state : SessionStates]] : n \in 0..MaxSnapshot}

\* getIndicatorState
getIndicatorState(list) ==
  LET states == [i \in 1..Len(list) |-> list[i].state] IN
    IF Len(list) = 0 THEN "idle"
    ELSE IF \E i \in 1..Len(states) : states[i] = "attention" THEN "attention"
    ELSE IF \E i \in 1..Len(states) : states[i] = "waiting" THEN "waiting"
    ELSE "running"

\* ------------- stale timers (useDrag.ts from line 132: useSessionManager)
\* This revision of the hook arms a timeout per session id.  Its Session
\* objects have no permissionTool, stoppedAt or staleAt; the cases PreToolUse,
\* PostToolUse, PreCompact, SessionEnd and Notification / SubagentStop /
\* UserPromptSubmit update the array exactly as the operators above do.

\* STALE_TIMEOUT_MS, counted in ticks of the clock
StaleTimeoutTicks == 2

\* staleTimers has no entry for the id
NoTimer == -1
\* the entry is a handle whose callback has run
Fired == -2
\* an entry in 0..StaleTimeoutTicks is a pending timeout: the ticks left
\* until its callback is due
Pending(t) == t >= 0

\* mutant: a timeout that is pending is left to run; the call arms one only
\* when none is pending
resetStaleTimerKeepsPending(timers, sid) ==
  IF Pending(timers[sid]) THEN timers ELSE [timers EXCEPT ![sid] = StaleTimeoutTicks]

\* resetStaleTimer: the entry of sessionId after the call
resetStaleTimer(timers, sid) == [timers EXCEPT ![sid] = StaleTimeoutTicks]

\* clearStaleTimer
clearStaleTimer(timers, sid) == [timers EXCEPT ![sid] = NoTimer]

\* mutant: the callback marks a session only when it is idle
StaleTimerCallbackIdleOnly(prev, sid) ==
  [i \in 1..Len(prev) |->
     IF prev[i].sessionId = sid /\ prev[i].state = "idle"
       THEN [prev[i] EXCEPT !.state = "stale"] ELSE prev[i]]

\* the callback resetStaleTimer hands to setTimeout
StaleTimerCallback(prev, sid) ==
  [i \in 1..Len(prev) |->
     IF prev[i].sessionId = sid THEN [prev[i] EXCEPT !.state = "stale"] ELSE prev[i]]

\* case 'SessionStart'
TimedNewSession(sid) ==
  [sessionId |-> sid, state |-> "running", runningTools |-> <<>>]

TimedSessionStartUpdate(prev, sid) ==
  IF HasSession(prev, sid) THEN prev ELSE Append(prev, TimedNewSession(sid))

\* case 'PermissionRequest'
TimedPermissionRequestUpdate(prev, sid) ==
  [i \in 1..Len(prev) |->
     IF prev[i].sessionId = sid THEN [prev[i] EXCEPT !.state = "attention"] ELSE prev[i]]

\* case 'Stop'
TimedStopUpdate(prev, sid) ==
  [i \in 1..Len(prev) |->
     IF prev[i].sessionId = sid
       THEN [prev[i] EXCEPT !.state = "idle", !.runningTools = <<>>] ELSE prev[i]]

\* ------ agent adapters: the Claude Code hook parser and the Codex rollout
\* watcher.  Their code is not among the sources (the prototype is fed
\* ready-made events); they are written from the mapping tables of the
\* specification, sections 4.1 to 4.3, and from the integration features.

\* a Bash command, read as a sequence of these tokens: the two words, one
\* whitespace character, one double quote
CommandTokens == {"aura", "set-name", " ", "\""}

\* the longest command drawn
MaxCommandLen == 8

Commands == UNION {[1..n -> CommandTokens] : n \in 0..MaxCommandLen}

\* tool_name of the PreToolUse hooks drawn
HookTools == {"Bash", "Read"}

\* no name: a session that was never named, a command that sets none
NoName == <<>>

\* the name of the session before the hook fires
EarlierName == <<"earlier">>

\* the token at index i, "end" past the end of the command
At(cmd, i) == IF i \in 1..Len(cmd) THEN cmd[i] ELSE "end"

\* \s*: the first index from i on that holds no whitespace
SkipSpace(cmd, i) ==
  LET rest == {j \in i..Len(cmd) : cmd[j] # " "}
  IN  IF rest = {} THEN Len(cmd) + 1
      ELSE CHOOSE j \in rest : \A k \in rest : j <= k

\* \s*$: the last index that holds no whitespace, 0 if there is none
LastNonSpace(cmd) ==
  LET rest == {j \in 1..Len(cmd) : cmd[j] # " "}
  IN  IF rest = {} THEN 0
      ELSE CHOOSE j \in rest : \A k \in rest : j >= k

\* ^\s*aura\s+set-name\s+"(.+)"\s*$ : the captured group, NoName when the
\* command does not match
SetNameCapture(cmd) ==
  LET a == SkipSpace(cmd, 1)
      s == SkipSpace(cmd, a + 1)
      q == SkipSpace(cmd, s + 1)
      e == LastNonSpace(cmd)
  IN  IF /\ At(cmd, a) = "aura"
         /\ s > a + 1 /\ At(cmd, s) = "set-name"
         /\ q > s + 1 /\ At(cmd, q) = "\""
         /\ e > q + 1 /\ At(cmd, e) = "\""
        THEN SubSeq(cmd, q + 1, e - 1)
        ELSE NoName

\* tool_id of an AgentEvent that names no tool
NoTool == 0

\* tool_use_id of the hook
HookToolId == 1

\* AgentEvent variants
SessionStarted(sid) ==
  [type |-> "SessionStarted", sessionId |-> sid, toolId |-> NoTool, name |-> NoName]

ToolStarted(sid, tid) ==
  [type |-> "ToolStarted", sessionId |-> sid, toolId |-> tid, name |-> NoName]

SessionNameUpdated(sid, n) ==
  [type |-> "SessionNameUpdated", sessionId |-> sid, toolId |-> NoTool, name |-> n]

\* mutant: a set-name command yields the name alone
PreToolUseEventsNameOnly(sid, tid, tool, cmd) ==
  IF tool = "Bash" /\ SetNameCapture(cmd) # NoName
    THEN <<SessionNameUpdated(sid, SetNameCapture(cmd))>>
    ELSE <<ToolStarted(sid, tid)>>

\* hook parser, row PreToolUse of the mapping table: the AgentEvents, in order
PreToolUseEvents(sid, tid, tool, cmd) ==
  IF tool = "Bash" /\ SetNameCapture(cmd) # NoName
    THEN <<ToolStarted(sid, tid), SessionNameUpdated(sid, SetNameCapture(cmd))>>
    ELSE <<ToolStarted(sid, tid)>>

\* registry: the effect of one AgentEvent (SessionStarted creates if absent;
\* ToolStarted inserts the tool; SessionNameUpdated sets the name; an event
\* for a session the registry does not hold changes nothing)
ApplyAgentEvent(reg, ev) ==
  IF ev.type = "SessionStarted"
    THEN IF \E i \in 1..Len(reg) : reg[i].sessionId = ev.sessionId
           THEN [i \in 1..Len(reg) |->
                   IF reg[i].sessionId = ev.sessionId
                     THEN [reg[i] EXCEPT !.state = "running"] ELSE reg[i]]
           ELSE Append(reg, [sessionId |-> ev.sessionId, state |-> "running",
                             name |-> NoName, runningTools |-> {}])
    ELSE [i \in 1..Len(reg) |->
            IF reg[i].sessionId # ev.sessionId THEN reg[i]
            ELSE IF ev.type = "ToolStarted"
              THEN [reg[i] EXCEPT !.state = "running",
                                  !.runningTools = @ \cup {ev.toolId}]
              ELSE [reg[i] EXCEPT !.name = ev.name]]

\* the kinds of line of a rollout file: session_meta; a function_call
\* response item; a function_call whose command is aura set-name "..."; and
\* any other line
LineKinds == {"session_meta", "function_call", "set_name_call", "other"}

\* the longest rollout file drawn
MaxRolloutLines == 6

Rollouts == UNION {[1..n -> LineKinds] : n \in 0..MaxRolloutLines}

\* at most this many AgentEvents are replayed from the tail
BootstrapReplayCap == 4

\* session_meta.id of the file
RolloutSessionId == "s1"

\* the name a set_name_call line carries
RolloutName == <<"aura">>

\* line mapping: the AgentEvents of line i; its call_id is its line number
LineEvents(kind, i) ==
  IF kind = "function_call" THEN <<ToolStarted(RolloutSessionId, i)>>
  ELSE IF kind = "set_name_call"
    THEN <<ToolStarted(RolloutSessionId, i),
           SessionNameUpdated(RolloutSessionId, RolloutName)>>
  ELSE <<>>

\* the AgentEvents of the lines from i to the end of the file, in order
RECURSIVE EventsFrom(_, _)
EventsFrom(lines, i) ==
  IF i > Len(lines) THEN <<>>
  ELSE LineEvents(lines[i], i) \o EventsFrom(lines, i + 1)

\* the last n elements of a sequence
LastN(seq, n) ==
  IF Len(seq) <= n THEN seq ELSE SubSeq(seq, Len(seq) - n + 1, Len(seq))

\* the lines of the file that are response items
ResponseLines(lines) ==
  {i \in 1..Len(lines) : lines[i] \in {"function_call", "set_name_call"}}

\* mutant: the cap counts lines: every event of the last BootstrapReplayCap
\* response items is replayed
BootstrapEventsOfLastLines(recent, lines) ==
  IF recent /\ \E i \in 1..Len(lines) : lines[i] = "session_meta"
    THEN LET kept == {i \in ResponseLines(lines) :
                        Cardinality({j \in ResponseLines(lines) : j >= i})
                          <= BootstrapReplayCap}
             from == IF kept = {} THEN Len(lines) + 1
                     ELSE CHOOSE i \in kept : \A k \in kept : i <= k
         IN  <<SessionStarted(RolloutSessionId)>> \o EventsFrom(lines, from)
    ELSE <<>>

\* bootstrap of a discovered rollout: nothing for a file last modified more
\* than ten minutes ago or without a session_meta line; otherwise
\* SessionStarted, then the last BootstrapReplayCap AgentEvents of the file
BootstrapEvents(recent, lines) ==
  IF recent /\ \E i \in 1..Len(lines) : lines[i] = "session_meta"
    THEN <<SessionStarted(RolloutSessionId)>>
           \o LastN(EventsFrom(lines, 1), BootstrapReplayCap)
    ELSE <<>>

\* ------ recent activity: the queue of completed tool labels the daemon
\* keeps per session.  Its code is not among the sources; it is written from
\* the specification, section 4.6, and from the tool-tracking feature.

\* the queue holds at most this many labels
RecentActivityCap == 6

\* tool_label of the tools that carry one
ActivityLabels == {"main.rs", "npm test", "server.rs"}

\* at most this many labels are pushed
MaxCompletions == 8

\* mutant: a label equal to the last entry is pushed again
PushRecentNoDedup(queue, label) ==
  LastN(Append(queue, label), RecentActivityCap)

\* the push of a label: nothing when it equals the last entry; otherwise it
\* is appended and the oldest entries beyond RecentActivityCap are dropped
PushRecent(queue, label) ==
  IF queue # <<>> /\ queue[Len(queue)] = label THEN queue
  ELSE LastN(Append(queue, label), RecentActivityCap)

\* ------------------------------------------------------------------- init
InitRegistry ==
  /\ sessions = <<>>
  /\ hist = [sid \in SessionIds |-> "never"]

InitApp ==
  /\ isExpanded = FALSE
  /\ prevSessionCount = 0
  /\ isDragging = FALSE
  /\ hasMoved = FALSE
  /\ wasDragged = FALSE
  /\ position = InitialIndicatorPosition
  /\ positionStart = <<0, 0>>
  /\ listDrag = [position |-> InitialListPosition, isDragging |-> FALSE,
                 wasDragged |-> FALSE, positionStart |-> <<0, 0>>,
                 hasMoved |-> FALSE]

InitRows ==
  /\ rowPlaceholder = [sid \in SessionIds |-> Unmounted]
  /\ shownPlaceholder = [sid \in SessionIds |-> Unmounted]

InitTimers ==
  /\ staleTimers = [sid \in SessionIds |-> NoTimer]
  /\ epoch = [sid \in SessionIds |-> 0]
  /\ sinceEvent = [sid \in SessionIds |-> StaleTimeoutTicks]
  /\ superseded = [sid \in SessionIds |-> FALSE]

\* no hook message and no rollout file has been handed to an adapter
InitAdapters ==
  /\ adapterIn = [kind |-> "none"]
  /\ parsed = FALSE
  /\ pending = <<>>
  /\ trace = <<>>
  /\ agentSessions = <<>>

\* no row is mounted, no tool has run, no input has been given
InitView ==
  /\ toolIndex = 0
  /\ effectsDue = FALSE
  /\ labelledTools = <<>>
  /\ recentActivity = <<>>
  /\ completedLabels = <<>>
  /\ lastInput = "none"

Init ==
  /\ InitRegistry
  /\ InitApp
  /\ InitRows
  /\ InitTimers
  /\ InitAdapters
  /\ InitView
  /\ snapshot = <<>>
  /\ indicator = getIndicatorState(snapshot)

\* ---------------------------------------------------------------- actions
SessionStart(sid) ==
  /\ sessions' = SessionStartUpdate(sessions, sid)
  /\ hist' = [hist EXCEPT ![sid] = "started"]

PreToolUse(sid, tid, tname) ==
  /\ sessions' = PreToolUseUpdate(sessions, sid, tid, tname)
  /\ UNCHANGED hist

PostToolUse(sid, tid) ==
  /\ sessions' = PostToolUseUpdate(sessions, sid, tid)
  /\ UNCHANGED hist

PermissionRequest(sid, tname) ==
  /\ sessions' = PermissionRequestUpdate(sessions, sid, tname)
  /\ UNCHANGED hist

Stop(sid, now) ==
  /\ sessions' = StopUpdate(sessions, sid, now)
  /\ UNCHANGED hist

PreCompact(sid) ==
  /\ sessions' = PreCompactUpdate(sessions, sid)
  /\ UNCHANGED hist

SessionEnd(sid) ==
  /\ sessions' = SessionEndUpdate(sessions, sid)
  /\ hist' = [hist EXCEPT ![sid] = IF @ = "never" THEN "never" ELSE "ended"]

Notification(sid) ==
  /\ sessions' = ActivityUpdate(sessions, sid)
  /\ UNCHANGED hist

SubagentStop(sid) ==
  /\ sessions' = ActivityUpdate(sessions, sid)
  /\ UNCHANGED hist

UserPromptSubmit(sid) ==
  /\ sessions' = ActivityUpdate(sessions, sid)
  /\ UNCHANGED hist

Stale(sid, now) ==
  /\ sessions' = StaleUpdate(sessions, sid, now)
  /\ UNCHANGED hist

\* any msg.type the switch has no case for
UnknownEvent(sid) ==
  /\ sessions' = sessions
  /\ UNCHANGED hist

ClearAll ==
  /\ sessions' = <<>>
  /\ UNCHANGED hist

RemoveSession(sid) ==
  /\ sessions' = RemoveSessionUpdate(sessions, sid)
  /\ UNCHANGED hist

\* msg.toolId of the events App delivers
AppToolIds == {"t1"}

\* the registry on its own: nothing outside it moves
frame == <<appVars, rowVars, indicatorVars, timerVars, adapterVars, viewVars>>

Next ==
  \/ \E sid \in SessionIds :
       SessionStart(sid) /\ UNCHANGED frame
  \/ \E sid \in SessionIds, tid \in ToolIds, tname \in ToolNames :
       PreToolUse(sid, tid, tname) /\ UNCHANGED frame
  \/ \E sid \in SessionIds, tid \in ToolIds \cup {Undefined} :
       PostToolUse(sid, tid) /\ UNCHANGED frame
  \/ \E sid \in SessionIds, tname \in ToolNames \cup {Undefined} :
       PermissionRequest(sid, tname) /\ UNCHANGED frame
  \/ \E sid \in SessionIds, now \in Times :
       Stop(sid, now) /\ UNCHANGED frame
  \/ \E sid \in SessionIds :
       PreCompact(sid) /\ UNCHANGED frame
  \/ \E sid \in SessionIds :
       SessionEnd(sid) /\ UNCHANGED frame
  \/ \E sid \in SessionIds :
       Notification(sid) /\ UNCHANGED frame
  \/ \E sid \in SessionIds :
       SubagentStop(sid) /\ UNCHANGED frame
  \/ \E sid \in SessionIds :
       UserPromptSubmit(sid) /\ UNCHANGED frame
  \/ \E sid \in SessionIds, now \in Times :
       Stale(sid, now) /\ UNCHANGED frame
  \/ \E sid \in SessionIds :
       UnknownEvent(sid) /\ UNCHANGED frame
  \/ ClearAll /\ UNCHANGED frame
  \/ \E sid \in SessionIds :
       RemoveSession(sid) /\ UNCHANGED frame

Spec == Init /\ [][Next]_vars

\* the registry of two sessions that each run at most one tool: the calls
\* of Next with the tool id of the events App delivers
PairNext ==
  \/ \E sid \in SessionIds :
       SessionStart(sid) /\ UNCHANGED frame
  \/ \E sid \in SessionIds, tid \in AppToolIds, tname \in ToolNames :
       PreToolUse(sid, tid, tname) /\ UNCHANGED frame
  \/ \E sid \in SessionIds, tid \in AppToolIds :
       PostToolUse(sid, tid) /\ UNCHANGED frame
  \/ \E sid \in SessionIds, tname \in ToolNames \cup {Undefined} :
       PermissionRequest(sid, tname) /\ UNCHANGED frame
  \/ \E sid \in SessionIds, now \in Times :
       Stop(sid, now) /\ UNCHANGED frame
  \/ \E sid \in SessionIds :
       PreCompact(sid) /\ UNCHANGED frame
  \/ \E sid \in SessionIds :
       SessionEnd(sid) /\ UNCHANGED frame
  \/ \E sid \in SessionIds :
       Notification(sid) /\ UNCHANGED frame
  \/ \E sid \in SessionIds, now \in Times :
       Stale(sid, now) /\ UNCHANGED frame
  \/ \E sid \in SessionIds :
       RemoveSession(sid) /\ UNCHANGED frame

SpecPair == Init /\ [][PairNext]_vars

\* ======================================================================
\* The App component: the registry hook, the expanded flag with its effect,
\* and the indicator's drag hook.  A change of `sessions` re-renders App, and
\* the effect on [sessions.length] runs with that render.
\* ======================================================================

\* useEffect(..., [sessions.length]) after the registry has changed
AppEffect ==
  /\ isExpanded' = AutoExpand(isExpanded, prevSessionCount, Len(sessions'))
  /\ prevSessionCount' = Len(sessions')

\* handleToggleView: the indicator's onClick and the 'Toggle View' control
handleToggleView ==
  /\ isExpanded' = ToggleViewExpanded(isExpanded, wasDragged)
  /\ wasDragged' = FALSE
  /\ UNCHANGED <<registryVars, prevSessionCount, isDragging, hasMoved>>

\* useDrag.handleMouseDown: the indicator's onMouseDown
handleMouseDown ==
  /\ isDragging' = TRUE
  /\ wasDragged' = FALSE
  /\ hasMoved' = FALSE
  /\ UNCHANGED <<registryVars, isExpanded, prevSessionCount>>

\* useDrag.handleMouseMove: listens on document while isDragging
handleMouseMove(dx, dy) ==
  /\ Listening(isDragging)
  /\ hasMoved' = MouseMoveHasMoved(hasMoved, dx, dy)
  /\ UNCHANGED <<registryVars, isExpanded, prevSessionCount, isDragging, wasDragged>>

\* useDrag.handleMouseUp: listens on document while isDragging
handleMouseUp ==
  /\ Listening(isDragging)
  /\ isDragging' = FALSE
  /\ wasDragged' = MouseUpWasDragged(hasMoved, wasDragged)
  /\ UNCHANGED <<registryVars, isExpanded, prevSessionCount, hasMoved>>

dragVars == <<isDragging, hasMoved, wasDragged, positionVars>>

\* the render that follows a call of handleEvent, clearAll or removeSession
AppRender ==
  /\ AppEffect
  /\ UNCHANGED <<dragVars, rowVars, indicatorVars, timerVars, adapterVars, viewVars>>

\* no handler and no effect of App reads a position: here the two positions
\* stay where they are, and SpecDrag below follows them
appFrame == <<positionVars, rowVars, indicatorVars, timerVars, adapterVars, viewVars>>

AppNext ==
  \/ \E sid \in SessionIds :
       SessionStart(sid) /\ AppRender
  \/ \E sid \in SessionIds, tid \in AppToolIds, tname \in ToolNames :
       PreToolUse(sid, tid, tname) /\ AppRender
  \/ \E sid \in SessionIds, tid \in AppToolIds \cup {Undefined} :
       PostToolUse(sid, tid) /\ AppRender
  \/ \E sid \in SessionIds, tname \in ToolNames \cup {Undefined} :
       PermissionRequest(sid, tname) /\ AppRender
  \/ \E sid \in SessionIds, now \in Times :
       Stop(sid, now) /\ AppRender
  \/ \E sid \in SessionIds :
       PreCompact(sid) /\ AppRender
  \/ \E sid \in SessionIds :
       SessionEnd(sid) /\ AppRender
  \/ \E sid \in SessionIds :
       Notification(sid) /\ AppRender
  \/ \E sid \in SessionIds :
       SubagentStop(sid) /\ AppRender
  \/ \E sid \in SessionIds :
       UserPromptSubmit(sid) /\ AppRender
  \/ \E sid \in SessionIds, now \in Times :
       Stale(sid, now) /\ AppRender
  \/ \E sid \in SessionIds :
       UnknownEvent(sid) /\ AppRender
  \/ ClearAll /\ AppRender
  \/ \E sid \in SessionIds :
       RemoveSession(sid) /\ AppRender
  \/ handleToggleView /\ UNCHANGED appFrame
  \/ handleMouseDown /\ UNCHANGED appFrame
  \/ \E dx, dy \in Deltas :
       handleMouseMove(dx, dy) /\ UNCHANGED appFrame
  \/ handleMouseUp /\ UNCHANGED appFrame

SpecApp == Init /\ [][AppNext]_vars

\* ======================================================================
\* App with its two useDrag instances and their positions.  The indicator
\* is always rendered; the header of the session list, which carries
\* handleListMouseDown, is rendered while the list is.  mousemove and mouseup
\* are document events: each reaches the listeners of every instance that is
\* dragging.  The registry is one session that starts and ends.
\* ======================================================================

\* the session id of the events delivered here
DragSessionIds == {"s1"}

\* handleIndicatorMouseDown: onDragStart of the Indicator
IndicatorMouseDown ==
  /\ handleMouseDown
  /\ positionStart' = position
  /\ UNCHANGED <<position, listDrag>>

\* handleListMouseDown: onDragStart of the SessionList header
ListMouseDown ==
  /\ ListVisible(isExpanded, sessions)
  /\ listDrag' = [listDrag EXCEPT !.isDragging = TRUE, !.wasDragged = FALSE,
                                  !.hasMoved = FALSE,
                                  !.positionStart = listDrag.position]
  /\ UNCHANGED <<registryVars, isExpanded, prevSessionCount, isDragging,
                 hasMoved, wasDragged, position, positionStart>>

\* handleMouseMove of the indicator's instance, if it is listening
IndicatorHearsMove(dx, dy) ==
  IF Listening(isDragging)
    THEN /\ handleMouseMove(dx, dy)
         /\ position' = MouseMovePosition(positionStart, dx, dy)
         /\ WithinReach(position', InitialIndicatorPosition)
         /\ UNCHANGED positionStart
    ELSE UNCHANGED <<registryVars, isExpanded, prevSessionCount, isDragging,
                     hasMoved, wasDragged, position, positionStart>>

\* handleMouseMove of the list's instance, if it is listening
ListHearsMove(dx, dy) ==
  IF Listening(listDrag.isDragging)
    THEN /\ listDrag' =
              [listDrag EXCEPT
                 !.hasMoved = MouseMoveHasMoved(listDrag.hasMoved, dx, dy),
                 !.position = MouseMovePosition(listDrag.positionStart, dx, dy)]
         /\ WithinReach(listDrag'.position, InitialListPosition)
    ELSE UNCHANGED listDrag

\* a mousemove on document; di and dl are the pointer's displacement from
\* the dragStart of each instance
DocumentMouseMove(di, dl) ==
  /\ Listening(isDragging) \/ Listening(listDrag.isDragging)
  /\ IndicatorHearsMove(di[1], di[2])
  /\ ListHearsMove(dl[1], dl[2])

\* a mouseup on document
DocumentMouseUp ==
  /\ Listening(isDragging) \/ Listening(listDrag.isDragging)
  /\ IF Listening(isDragging)
       THEN handleMouseUp
       ELSE UNCHANGED <<registryVars, isExpanded, prevSessionCount, isDragging,
                        hasMoved, wasDragged>>
  /\ listDrag' =
       IF Listening(listDrag.isDragging)
         THEN [listDrag EXCEPT
                 !.isDragging = FALSE,
                 !.wasDragged = MouseUpWasDragged(listDrag.hasMoved, listDrag.wasDragged)]
         ELSE listDrag
  /\ UNCHANGED <<position, positionStart>>

dragFrame == <<rowVars, indicatorVars, timerVars, adapterVars, viewVars>>

DragNext ==
  \/ \E sid \in DragSessionIds :
       SessionStart(sid) /\ AppRender
  \/ \E sid \in DragSessionIds :
       SessionEnd(sid) /\ AppRender
  \/ handleToggleView /\ UNCHANGED <<positionVars, dragFrame>>
  \/ IndicatorMouseDown /\ UNCHANGED dragFrame
  \/ ListMouseDown /\ UNCHANGED dragFrame
  \/ \E di, dl \in DragMoves :
       DocumentMouseMove(di, dl) /\ UNCHANGED dragFrame
  \/ DocumentMouseUp /\ UNCHANGED dragFrame

SpecDrag == Init /\ [][DragNext]_vars

\* ======================================================================
\* App and the inputs that reach handleToggleView.  A press on the indicator
\* is followed by mousemove events and a mouseup; the browser then
\* dispatches the click of the gesture at once, and the Indicator either
\* hands it to onClick or does not (Indicator.handleClick returns without
\* calling onClick for the third click within 500 ms, and a mouseup away
\* from the indicator gives it no click).  The 'Toggle View' control calls
\* handleToggleView directly.  The sessions of the registry start and end.
\* ======================================================================

clickFrame == <<positionVars, rowVars, indicatorVars, timerVars, adapterVars,
                cycleVars, activityVars>>

\* the input is recorded as the last one given
Input(kind) == lastInput' = kind /\ UNCHANGED clickFrame

\* no click of a gesture is about to be dispatched
Settled == lastInput # "up"

\* the click of the gesture reaches onClick of the Indicator
IndicatorClick ==
  /\ lastInput = "up"
  /\ handleToggleView
  /\ Input("click")

\* the click of the gesture does not reach onClick
ClickNotDelivered ==
  /\ lastInput = "up"
  /\ UNCHANGED <<registryVars, appVars>>
  /\ Input("lost")

\* onClick of the 'Toggle View' button
ToggleViewControl ==
  /\ Settled /\ ~isDragging
  /\ handleToggleView
  /\ Input("control")

ClickNext ==
  \/ \E sid \in SessionIds :
       /\ Settled
       /\ SessionStart(sid) /\ AppEffect
       /\ UNCHANGED dragVars /\ Input("session")
  \/ \E sid \in SessionIds :
       /\ Settled
       /\ SessionEnd(sid) /\ AppEffect
       /\ UNCHANGED dragVars /\ Input("session")
  \/ Settled /\ ~isDragging /\ handleMouseDown /\ Input("down")
  \/ \E dx, dy \in Deltas :
       handleMouseMove(dx, dy) /\ Input("move")
  \/ handleMouseUp /\ Input("up")
  \/ IndicatorClick
  \/ ClickNotDelivered
  \/ ToggleViewControl

SpecClick == Init /\ [][ClickNext]_vars

\* ======================================================================
\* The session rows App shows: SessionList exists while ListVisible, with one
\* SessionRow per session keyed by its id.  A row that is mounted evaluates
\* useRef(getRandomPlaceholder()); a row that stays mounted keeps its ref.
\* ======================================================================

\* session ids of the events delivered while the rows are observed
RowSessionIds == {"s1"}

\* the session ids whose row mounts in the render of the next state
Mounting ==
  {sid \in SessionIds :
     RowMounted(isExpanded', sessions', sid) /\ rowPlaceholder[sid] = Unmounted}

\* the render of SessionList and its rows after a change of App's state;
\* draw[sid] is what getRandomPlaceholder() returns in the row that mounts
\* for sid
RowsRender ==
  \E draw \in [Mounting -> PlaceholderTexts] :
    /\ rowPlaceholder' =
         [sid \in SessionIds |->
            IF RowMounted(isExpanded', sessions', sid)
              THEN IF rowPlaceholder[sid] # Unmounted THEN rowPlaceholder[sid]
                   ELSE draw[sid]
              ELSE Unmounted]
    /\ shownPlaceholder' =
         [sid \in SessionIds |->
            IF shownPlaceholder[sid] = Unmounted
                 /\ ShowsPlaceholder(isExpanded', sessions', sid)
              THEN rowPlaceholder'[sid]
              ELSE shownPlaceholder[sid]]

\* a registry call, App's render and effect, and the rows' render
RowsAfterCall ==
  /\ AppEffect
  /\ RowsRender
  /\ UNCHANGED <<dragVars, indicatorVars, timerVars, adapterVars, viewVars>>

\* the rows' render after a click or a mouse event on the indicator
RowsAfterInput ==
  /\ RowsRender
  /\ UNCHANGED <<positionVars, indicatorVars, timerVars, adapterVars, viewVars>>

RowsNext ==
  \/ \E sid \in RowSessionIds :
       SessionStart(sid) /\ RowsAfterCall
  \/ \E sid \in RowSessionIds, tid \in AppToolIds, tname \in ToolNames :
       PreToolUse(sid, tid, tname) /\ RowsAfterCall
  \/ \E sid \in RowSessionIds, tid \in AppToolIds \cup {Undefined} :
       PostToolUse(sid, tid) /\ RowsAfterCall
  \/ \E sid \in RowSessionIds, tname \in ToolNames \cup {Undefined} :
       PermissionRequest(sid, tname) /\ RowsAfterCall
  \/ \E sid \in RowSessionIds, now \in Times :
       Stop(sid, now) /\ RowsAfterCall
  \/ \E sid \in RowSessionIds :
       PreCompact(sid) /\ RowsAfterCall
  \/ \E sid \in RowSessionIds :
       SessionEnd(sid) /\ RowsAfterCall
  \/ \E sid \in RowSessionIds :
       Notification(sid) /\ RowsAfterCall
  \/ \E sid \in RowSessionIds :
       SubagentStop(sid) /\ RowsAfterCall
  \/ \E sid \in RowSessionIds :
       UserPromptSubmit(sid) /\ RowsAfterCall
  \/ \E sid \in RowSessionIds, now \in Times :
       Stale(sid, now) /\ RowsAfterCall
  \/ \E sid \in RowSessionIds :
       UnknownEvent(sid) /\ RowsAfterCall
  \/ ClearAll /\ RowsAfterCall
  \/ \E sid \in RowSessionIds :
       RemoveSession(sid) /\ RowsAfterCall
  \/ handleToggleView /\ RowsAfterInput
  \/ handleMouseDown /\ RowsAfterInput
  \/ \E dx, dy \in Deltas :
       handleMouseMove(dx, dy) /\ RowsAfterInput
  \/ handleMouseUp /\ RowsAfterInput

SpecRows == Init /\ [][RowsNext]_vars

\* ======================================================================
\* The row of one session and its tool cycling.  A registry call re-renders
\* App, SessionList and the row, and the render is committed with the
\* toolIndex the row had; the effects of that render run after the commit
\* and before anything else, and what they set is shown by the render that
\* follows them.  While more than one tool runs the interval advances
\* toolIndex.  The list is not toggled by hand here, so the row is mounted
\* exactly while the session exists.
\* ======================================================================

\* the session whose row is followed
CycleSessionId == "s1"

\* msg.toolId of the events delivered here
CycleToolIds == {"t1", "t2", "t3"}

\* runningTools of the row's session prop, <<>> when the registry has no
\* such session
RowTools(reg) ==
  IF HasSession(reg, CycleSessionId)
    THEN (CHOOSE x \in {reg[i] : i \in 1..Len(reg)} :
            x.sessionId = CycleSessionId).runningTools
    ELSE <<>>

\* the commit of the render that follows a registry call: a row that stays
\* mounted keeps its state, a row that mounts starts from useState(0); the
\* effects run after a mount and after a change of runningTools.length
RowCommit ==
  LET was == RowMounted(isExpanded, sessions, CycleSessionId)
      is  == RowMounted(isExpanded', sessions', CycleSessionId)
  IN  /\ toolIndex' = IF was /\ is THEN toolIndex ELSE 0
      /\ effectsDue' =
           (is /\ (~was \/ Len(RowTools(sessions')) # Len(RowTools(sessions))))

\* a registry call, App's render and effect, and the commit of the row
CycleAfterCall ==
  /\ ~effectsDue
  /\ AppEffect
  /\ RowCommit
  /\ UNCHANGED <<dragVars, rowVars, indicatorVars, timerVars, adapterVars,
                 activityVars, lastInput>>

cycleFrame == <<registryVars, appVars, rowVars, indicatorVars, timerVars,
                adapterVars, activityVars, lastInput>>

\* the two effects of the committed render run
RowEffects ==
  /\ effectsDue
  /\ toolIndex' = EffectsToolIndex(toolIndex, Len(RowTools(sessions)))
  /\ effectsDue' = FALSE
  /\ UNCHANGED cycleFrame

\* the interval started by the first effect fires
IntervalFires ==
  /\ ~effectsDue
  /\ RowMounted(isExpanded, sessions, CycleSessionId)
  /\ Len(RowTools(sessions)) > 1
  /\ toolIndex' = IntervalToolIndex(toolIndex, Len(RowTools(sessions)))
  /\ UNCHANGED <<effectsDue, cycleFrame>>

CycleNext ==
  \/ SessionStart(CycleSessionId) /\ CycleAfterCall
  \/ \E tid \in CycleToolIds, tname \in ToolNames :
       PreToolUse(CycleSessionId, tid, tname) /\ CycleAfterCall
  \/ \E tid \in CycleToolIds \cup {Undefined} :
       PostToolUse(CycleSessionId, tid) /\ CycleAfterCall
  \/ \E tname \in ToolNames :
       PermissionRequest(CycleSessionId, tname) /\ CycleAfterCall
  \/ \E now \in Times :
       Stop(CycleSessionId, now) /\ CycleAfterCall
  \/ PreCompact(CycleSessionId) /\ CycleAfterCall
  \/ SessionEnd(CycleSessionId) /\ CycleAfterCall
  \/ Notification(CycleSessionId) /\ CycleAfterCall
  \/ \E now \in Times :
       Stale(CycleSessionId, now) /\ CycleAfterCall
  \/ RemoveSession(CycleSessionId) /\ CycleAfterCall
  \/ RowEffects
  \/ IntervalFires

SpecCycle == Init /\ [][CycleNext]_vars

\* ======================================================================
\* The Indicator component on its own: it is rendered with a session array
\* and shows getIndicatorState of it; it is rendered again when the array
\* changes.
\* ======================================================================
IndicatorInit ==
  /\ InitRegistry
  /\ InitApp
  /\ InitRows
  /\ InitTimers
  /\ InitAdapters
  /\ InitView
  /\ snapshot \in Snapshots
  /\ indicator = getIndicatorState(snapshot)

\* the array with the entries at positions i and j exchanged
Swap(list, i, j) ==
  [k \in 1..Len(list) |-> IF k = i THEN list[j] ELSE IF k = j THEN list[i] ELSE list[k]]

\* a render with the same sessions in another order
ReorderSessions(i, j) ==
  /\ snapshot' = Swap(snapshot, i, j)
  /\ indicator' = getIndicatorState(snapshot')
  /\ UNCHANGED <<registryVars, appVars, rowVars, timerVars, adapterVars, viewVars>>

\* a render after one session has changed state
SessionChangesState(i, st) ==
  /\ snapshot' = [snapshot EXCEPT ![i].state = st]
  /\ indicator' = getIndicatorState(snapshot')
  /\ UNCHANGED <<registryVars, appVars, rowVars, timerVars, adapterVars, viewVars>>

IndicatorNext ==
  \/ \E i, j \in 1..Len(snapshot) : ReorderSessions(i, j)
  \/ \E i \in 1..Len(snapshot), st \in SessionStates : SessionChangesState(i, st)

SpecIndicator == IndicatorInit /\ [][IndicatorNext]_vars

\* ======================================================================
\* The registry revision with stale timers.  Every case of handleEvent but
\* 'SessionEnd' ends with resetStaleTimer(sessionId); the callback of a
\* timeout runs once, when its delay has elapsed.  Time advances in ticks,
\* and a timeout that is due runs before the next tick.
\* ======================================================================

\* msg.toolId of the events delivered to this revision
TimedToolIds == {"t1"}

\* what every handleEvent(msg) call for sid does besides its case
Handled(sid) ==
  /\ epoch' = [epoch EXCEPT ![sid] = 1 - @]
  /\ sinceEvent' = [sinceEvent EXCEPT ![sid] = 0]
  /\ superseded' = [superseded EXCEPT ![sid] =
                       staleTimers[sid] \in 0..(StaleTimeoutTicks - 1)]
  /\ UNCHANGED <<hist, appVars, rowVars, indicatorVars, adapterVars, viewVars>>

TimedSessionStart(sid) ==
  /\ sessions' = TimedSessionStartUpdate(sessions, sid)
  /\ staleTimers' = resetStaleTimer(staleTimers, sid)
  /\ Handled(sid)

TimedPreToolUse(sid, tid, tname) ==
  /\ sessions' = PreToolUseUpdate(sessions, sid, tid, tname)
  /\ staleTimers' = resetStaleTimer(staleTimers, sid)
  /\ Handled(sid)

TimedPostToolUse(sid, tid) ==
  /\ sessions' = PostToolUseUpdate(sessions, sid, tid)
  /\ staleTimers' = resetStaleTimer(staleTimers, sid)
  /\ Handled(sid)

TimedPermissionRequest(sid) ==
  /\ sessions' = TimedPermissionRequestUpdate(sessions, sid)
  /\ staleTimers' = resetStaleTimer(staleTimers, sid)
  /\ Handled(sid)

TimedStop(sid) ==
  /\ sessions' = TimedStopUpdate(sessions, sid)
  /\ staleTimers' = resetStaleTimer(staleTimers, sid)
  /\ Handled(sid)

TimedPreCompact(sid) ==
  /\ sessions' = PreCompactUpdate(sessions, sid)
  /\ staleTimers' = resetStaleTimer(staleTimers, sid)
  /\ Handled(sid)

TimedSessionEnd(sid) ==
  /\ staleTimers' = clearStaleTimer(staleTimers, sid)
  /\ sessions' = SessionEndUpdate(sessions, sid)
  /\ Handled(sid)

\* case 'Notification' / 'SubagentStop' / 'UserPromptSubmit'
TimedActivity(sid) ==
  /\ sessions' = ActivityUpdate(sessions, sid)
  /\ staleTimers' = resetStaleTimer(staleTimers, sid)
  /\ Handled(sid)

\* default: any other msg.type
TimedDefault(sid) ==
  /\ staleTimers' = resetStaleTimer(staleTimers, sid)
  /\ UNCHANGED sessions
  /\ Handled(sid)

\* clearAll
TimedClearAll ==
  /\ staleTimers' = [sid \in SessionIds |-> NoTimer]
  /\ sessions' = <<>>
  /\ UNCHANGED <<epoch, sinceEvent, superseded, hist, appVars, rowVars, indicatorVars, adapterVars, viewVars>>

\* one tick of the clock: every pending timeout is one tick nearer
Tick ==
  /\ \A sid \in SessionIds : staleTimers[sid] # 0
  /\ staleTimers' =
       [sid \in SessionIds |->
          IF Pending(staleTimers[sid]) THEN staleTimers[sid] - 1 ELSE staleTimers[sid]]
  /\ sinceEvent' =
       [sid \in SessionIds |->
          IF sinceEvent[sid] < StaleTimeoutTicks THEN sinceEvent[sid] + 1
          ELSE sinceEvent[sid]]
  /\ UNCHANGED <<sessions, epoch, superseded, hist, appVars, rowVars, indicatorVars, adapterVars, viewVars>>

\* the timeout armed for sid is due: its callback runs
TimerFire(sid) ==
  /\ staleTimers[sid] = 0
  /\ sessions' = StaleTimerCallback(sessions, sid)
  /\ staleTimers' = [staleTimers EXCEPT ![sid] = Fired]
  /\ UNCHANGED <<epoch, sinceEvent, superseded, hist, appVars, rowVars, indicatorVars, adapterVars, viewVars>>

TimerNext ==
  \/ \E sid \in SessionIds : TimedSessionStart(sid)
  \/ \E sid \in SessionIds, tid \in TimedToolIds, tname \in ToolNames :
       TimedPreToolUse(sid, tid, tname)
  \/ \E sid \in SessionIds, tid \in TimedToolIds \cup {Undefined} :
       TimedPostToolUse(sid, tid)
  \/ \E sid \in SessionIds : TimedPermissionRequest(sid)
  \/ \E sid \in SessionIds : TimedStop(sid)
  \/ \E sid \in SessionIds : TimedPreCompact(sid)
  \/ \E sid \in SessionIds : TimedSessionEnd(sid)
  \/ \E sid \in SessionIds : TimedActivity(sid)
  \/ \E sid \in SessionIds : TimedDefault(sid)
  \/ TimedClearAll
  \/ Tick
  \/ \E sid \in SessionIds : TimerFire(sid)

SpecTimer == Init /\ [][TimerNext]_vars

\* the clock keeps ticking and the event loop runs every callback that is due
SpecTimerFair ==
  /\ SpecTimer
  /\ WF_vars(Tick)
  /\ \A sid \in SessionIds : WF_vars(TimerFire(sid))

\* ======================================================================
\* The agent adapters.  An adapter is handed one input, turns it into
\* AgentEvents, and the daemon applies them to its registry one at a time
\* in the order emitted.
\* ======================================================================

\* session_id of the hook
HookSessionId == "s1"

\* a PreToolUse hook is about to fire for a session that exists and has a name
HookInit ==
  /\ InitRegistry /\ InitApp /\ InitRows /\ InitTimers /\ InitView
  /\ snapshot = <<>>
  /\ indicator = getIndicatorState(snapshot)
  /\ adapterIn \in [kind : {"PreToolUse"}, toolName : HookTools, command : Commands]
  /\ parsed = FALSE
  /\ pending = <<>>
  /\ trace = <<>>
  /\ agentSessions = <<[sessionId |-> HookSessionId, state |-> "running",
                        name |-> EarlierName, runningTools |-> {}]>>

\* a rollout file is about to be discovered by a daemon with no sessions
CodexInit ==
  /\ InitRegistry /\ InitApp /\ InitRows /\ InitTimers /\ InitView
  /\ snapshot = <<>>
  /\ indicator = getIndicatorState(snapshot)
  /\ adapterIn \in [kind : {"rollout"}, recent : BOOLEAN, lines : Rollouts]
  /\ parsed = FALSE
  /\ pending = <<>>
  /\ trace = <<>>
  /\ agentSessions = <<>>

\* the hook parser maps the PreToolUse message
HookFires ==
  /\ ~parsed
  /\ parsed' = TRUE
  /\ pending' = PreToolUseEvents(HookSessionId, HookToolId,
                                 adapterIn.toolName, adapterIn.command)
  /\ UNCHANGED <<adapterIn, trace, agentSessions>>

\* the watcher bootstraps the rollout file
RolloutDiscovered ==
  /\ ~parsed
  /\ parsed' = TRUE
  /\ pending' = BootstrapEvents(adapterIn.recent, adapterIn.lines)
  /\ UNCHANGED <<adapterIn, trace, agentSessions>>

\* the daemon applies the next AgentEvent
ApplyPending ==
  /\ pending # <<>>
  /\ agentSessions' = ApplyAgentEvent(agentSessions, Head(pending))
  /\ trace' = Append(trace, Head(pending))
  /\ pending' = Tail(pending)
  /\ UNCHANGED <<adapterIn, parsed>>

adapterFrame == <<registryVars, appVars, rowVars, indicatorVars, timerVars, viewVars>>

HookNext ==
  \/ HookFires /\ UNCHANGED adapterFrame
  \/ ApplyPending /\ UNCHANGED adapterFrame

SpecHook == HookInit /\ [][HookNext]_vars

CodexNext ==
  \/ RolloutDiscovered /\ UNCHANGED adapterFrame
  \/ ApplyPending /\ UNCHANGED adapterFrame

SpecCodex == CodexInit /\ [][CodexNext]_vars

\* ======================================================================
\* The recent-activity queue of one session that exists: its tools start,
\* with or without a label, and complete.
\* ======================================================================

activityFrame == <<registryVars, appVars, rowVars, indicatorVars, timerVars,
                   adapterVars, cycleVars, lastInput>>

\* ToolStarted: dedup on insert, insertion order
ActivityToolStarted(tid, label) ==
  /\ \A i \in 1..Len(labelledTools) : labelledTools[i].toolId # tid
  /\ labelledTools' = Append(labelledTools, [toolId |-> tid, toolLabel |-> label])
  /\ UNCHANGED <<recentActivity, completedLabels, activityFrame>>

\* ToolCompleted: the tool is removed, and its label, if it has one, pushed
ActivityToolCompleted(tid) ==
  \E i \in 1..Len(labelledTools) :
    /\ labelledTools[i].toolId = tid
    /\ labelledTools' = SelectSeq(labelledTools, LAMBDA t : t.toolId # tid)
    /\ IF labelledTools[i].toolLabel # Undefined
         THEN /\ Len(completedLabels) < MaxCompletions
              /\ recentActivity' = PushRecent(recentActivity, labelledTools[i].toolLabel)
              /\ completedLabels' = Append(completedLabels, labelledTools[i].toolLabel)
         ELSE UNCHANGED <<recentActivity, completedLabels>>
    /\ UNCHANGED activityFrame

ActivityNext ==
  \/ \E tid \in ToolIds, label \in ActivityLabels \cup {Undefined} :
       ActivityToolStarted(tid, label)
  \/ \E tid \in ToolIds : ActivityToolCompleted(tid)

SpecActivity == Init /\ [][ActivityNext]_vars

\* ======================================================================
\* Properties of the registry.  A property about the effect of one event is
\* stated over every reachable registry and every input of the event: the
\* update operator applied to `sessions` is exactly the successor the action
\* produces.
\* ======================================================================

\* the registry has a session sid and it is running
InStateRunning(reg, sid) ==
  \E i \in 1..Len(reg) : reg[i].sessionId = sid /\ reg[i].state = "running"

\* the entries of a registry that carry session id sid
Entries(reg, sid) == {i \in 1..Len(reg) : reg[i].sessionId = sid}

\* the Session objects a registry holds for sid
SessionsOf(reg, sid) == {reg[i] : i \in Entries(reg, sid)}

\* every registry an event other than SessionStart for sid can produce from reg
OtherEventResults(reg, sid) ==
  {PreToolUseUpdate(reg, sid, tid, tname) : tid \in ToolIds, tname \in ToolNames}
    \cup {PostToolUseUpdate(reg, sid, tid) : tid \in ToolIds \cup {Undefined}}
    \cup {PermissionRequestUpdate(reg, sid, tname) : tname \in ToolNames \cup {Undefined}}
    \cup {StopUpdate(reg, sid, now) : now \in Times}
    \cup {StaleUpdate(reg, sid, now) : now \in Times}
    \cup {PreCompactUpdate(reg, sid), SessionEndUpdate(reg, sid),
          ActivityUpdate(reg, sid), reg}

\* C1 (I3, P3): a session in state idle has no running tools, and the Stop
\* event applied to an existing session, whatever its state and however many
\* tools it runs, leaves it idle with no running tools.
C1_IdleHasNoTools ==
  /\ \A i \in 1..Len(sessions) :
       sessions[i].state = "idle" => sessions[i].runningTools = <<>>
  /\ \A sid \in SessionIds, now \in Times :
       LET post == StopUpdate(sessions, sid, now) IN
         /\ Len(post) = Len(sessions)
         /\ \A i \in Entries(sessions, sid) :
              post[i].state = "idle" /\ post[i].runningTools = <<>>

\* Stop has made one session idle while another, not idle, runs two tools.
C1_Witness ==
  \E i, j \in 1..Len(sessions) :
    /\ sessions[i].state = "idle" /\ sessions[i].stoppedAt # NoTime
    /\ sessions[j].state = "attention" /\ Len(sessions[j].runningTools) = 2

\* C2: PreToolUse applied to an existing session leaves it running with the
\* tool id among its running tools, whatever its prior state and whether or
\* not the tool id was already running.
C2_ToolStartedSetsRunning ==
  \A sid \in SessionIds, tid \in ToolIds, tname \in ToolNames :
    LET post == PreToolUseUpdate(sessions, sid, tid, tname) IN
      \A i \in Entries(sessions, sid) :
        post[i].state = "running" /\ HasTool(post[i], tid)

\* C3 (I2): no session lists a tool id twice, and a PreToolUse whose tool id
\* is already running in the session adds no entry.
C3_ToolIdsUnique ==
  /\ \A i \in 1..Len(sessions) :
       \A a, b \in 1..Len(sessions[i].runningTools) :
         sessions[i].runningTools[a].toolId = sessions[i].runningTools[b].toolId
           => a = b
  /\ \A sid \in SessionIds, tid \in ToolIds, tname \in ToolNames :
       LET post == PreToolUseUpdate(sessions, sid, tid, tname) IN
         \A i \in Entries(sessions, sid) :
           HasTool(sessions[i], tid)
             => post[i].runningTools = sessions[i].runningTools

\* a session runs both tools, so a PreToolUse for either id is a repeat
C3_Witness ==
  \E i \in 1..Len(sessions) :
    /\ Len(sessions[i].runningTools) = 2
    /\ \A tid \in ToolIds : HasTool(sessions[i], tid)

\* C4 (P2): PostToolUse is idempotent: applied a second time it changes
\* nothing, and applied for a tool id the session does not run it leaves the
\* registry as it is.
C4_ToolCompletedIdempotent ==
  \A sid \in SessionIds, tid \in ToolIds \cup {Undefined} :
    LET once == PostToolUseUpdate(sessions, sid, tid) IN
      /\ PostToolUseUpdate(once, sid, tid) = once
      /\ (\A i \in Entries(sessions, sid) : ~HasTool(sessions[i], tid))
           => once = sessions

\* a session runs t2 and not t1 while another runs both: completing t1 is a
\* repeat for the first and a removal for the second
C4_Witness ==
  \E i, j \in 1..Len(sessions) :
    /\ HasTool(sessions[i], "t2") /\ ~HasTool(sessions[i], "t1")
    /\ HasTool(sessions[j], "t1") /\ HasTool(sessions[j], "t2")

\* C5 (P4): SessionEnd removes the session's entry, and from then until a
\* SessionStart for the id no event for it changes the registry.
C5_EndedStaysRemoved ==
  \A sid \in SessionIds :
    /\ ~HasSession(SessionEndUpdate(sessions, sid), sid)
    /\ hist[sid] = "ended" =>
         /\ ~HasSession(sessions, sid)
         /\ \A post \in OtherEventResults(sessions, sid) : post = sessions

\* one session has been ended while another is still tracked with a tool
C5_Witness ==
  \E sid \in SessionIds :
    /\ hist[sid] = "ended"
    /\ \E i \in 1..Len(sessions) : sessions[i].runningTools # <<>>

C7_RestartSetsRunning ==
  \A sid \in SessionIds :
    LET post == SessionStartUpdate(sessions, sid) IN
      \A i \in Entries(sessions, sid) :
        sessions[i].state # "running" => post[i].state = "running"

\* C8 (I1): the registry never holds two entries with one session id, and a
\* SessionStart for an id already present adds no entry.
C8_SessionIdsUnique ==
  /\ \A i, j \in 1..Len(sessions) :
       sessions[i].sessionId = sessions[j].sessionId => i = j
  /\ \A sid \in SessionIds :
       HasSession(sessions, sid)
         => SessionStartUpdate(sessions, sid) = sessions

\* both ids are tracked, so a SessionStart for either is a repeat
C8_Witness ==
  /\ Len(sessions) = 2
  /\ \A sid \in SessionIds : HasSession(sessions, sid)

\* C9: a session that is not in state attention has no permissionTool.
C9_PermissionToolOnlyInAttention ==
  \A i \in 1..Len(sessions) :
    sessions[i].state # "attention" => sessions[i].permissionTool = Undefined

\* C10: stoppedAt is set exactly when the session is idle and staleAt exactly
\* when it is stale.
C10_TimestampsMatchState ==
  \A i \in 1..Len(sessions) :
    /\ sessions[i].stoppedAt # NoTime <=> sessions[i].state = "idle"
    /\ sessions[i].staleAt # NoTime <=> sessions[i].state = "stale"

\* every registry an event for sid other than SessionEnd can produce from reg
NonEndingEventResults(reg, sid) ==
  {PreToolUseUpdate(reg, sid, tid, tname) : tid \in ToolIds, tname \in ToolNames}
    \cup {PostToolUseUpdate(reg, sid, tid) : tid \in ToolIds \cup {Undefined}}
    \cup {PermissionRequestUpdate(reg, sid, tname) : tname \in ToolNames \cup {Undefined}}
    \cup {StopUpdate(reg, sid, now) : now \in Times}
    \cup {StaleUpdate(reg, sid, now) : now \in Times}
    \cup {SessionStartUpdate(reg, sid), PreCompactUpdate(reg, sid),
          ActivityUpdate(reg, sid), reg}

\* C13 (I6): no event other than SessionEnd takes a session out of the
\* registry (removeSession and clearAll are the only other mutators), and the
\* Stale event keeps the session it marks: same position, same id, state stale.
C13_OnlyEndOrRemovalRemoves ==
  \A sid \in SessionIds :
    /\ \A post \in NonEndingEventResults(sessions, sid) :
         /\ Len(post) >= Len(sessions)
         /\ \A i \in 1..Len(sessions) : post[i].sessionId = sessions[i].sessionId
    /\ \A now \in Times :
         LET post == StaleUpdate(sessions, sid, now) IN
           /\ Len(post) = Len(sessions)
           /\ \A i \in Entries(sessions, sid) :
                post[i].sessionId = sid /\ post[i].state = "stale"

\* a session marked stale is still tracked, next to one that is not stale
C13_Witness ==
  \E i, j \in 1..Len(sessions) :
    /\ sessions[i].state = "stale" /\ sessions[i].staleAt # NoTime
    /\ sessions[j].state = "running"

\* C14: for an existing session the state after a state-setting event is fixed
\* by the event, whatever the state before: activity gives running, Stop gives
\* idle, PermissionRequest gives attention, PreCompact gives compacting, and
\* the waiting-for-input notification gives waiting.  The only hook that
\* carries a waiting-for-input notice is Notification, which handleEvent
\* treats as activity.
C14_StateSetByEventAlone ==
  \A sid \in SessionIds :
    \A i \in Entries(sessions, sid) :
      /\ ActivityUpdate(sessions, sid)[i].state = "running"
      /\ \A now \in Times : StopUpdate(sessions, sid, now)[i].state = "idle"
      /\ \A tname \in ToolNames \cup {Undefined} :
           PermissionRequestUpdate(sessions, sid, tname)[i].state = "attention"
      /\ PreCompactUpdate(sessions, sid)[i].state = "compacting"
      /\ ActivityUpdate(sessions, sid)[i].state = "waiting"

\* C23: the Notification hook never leaves a session running: whatever the
\* notice (permission prompt, idle prompt, anything else) the session is in
\* state attention or waiting afterwards.
C23_NotificationNeverRunning ==
  \A sid \in SessionIds, now \in Times :
    \A i \in Entries(sessions, sid) :
      handleEvent(sessions, "Notification", sid, Undefined, Undefined, now)[i].state
        \in {"attention", "waiting"}

\* C24: UserPromptSubmit, SubagentStart and SubagentStop each leave an
\* existing session running, whatever its state before.
C24_ActivityHooksSetRunning ==
  \A sid \in SessionIds, now \in Times :
    \A i \in Entries(sessions, sid) :
      \A type \in {"UserPromptSubmit", "SubagentStart", "SubagentStop"} :
        handleEvent(sessions, type, sid, Undefined, Undefined, now)[i].state
          = "running"

\* C25: PostToolUseFailure leaves the same registry as PostToolUse with the
\* same tool id: the tool is gone from the session's running tools.
C25_ToolFailureCompletesTool ==
  \A sid \in SessionIds, tid \in ToolIds, now \in Times :
    LET failed == handleEvent(sessions, "PostToolUseFailure", sid, tid, Undefined, now)
        done   == handleEvent(sessions, "PostToolUse", sid, tid, Undefined, now)
    IN  /\ failed = done
        /\ \A i \in Entries(sessions, sid) : ~HasTool(failed[i], tid)

\* C32: removeSession(sid) leaves no session with id sid, whatever the state
\* of the one it removes, and leaves every other session as it was and in
\* the order it was; for an id the registry does not hold it leaves the
\* registry as it is.
C32_RemoveDeletesOnlyNamed ==
  \A sid \in SessionIds :
    LET post == RemoveSessionUpdate(sessions, sid)
        kept == {i \in 1..Len(sessions) : sessions[i].sessionId # sid}
    IN  /\ ~HasSession(post, sid)
        /\ Len(post) = Cardinality(kept)
        /\ \A i \in kept :
             post[Cardinality({k \in kept : k <= i})] = sessions[i]
        /\ ~HasSession(sessions, sid) => post = sessions

\* a session that was started is no longer tracked though no SessionEnd was
\* handled for it, and the other session is still tracked, in attention with
\* a running tool
C32_Witness ==
  \E sid, other \in SessionIds :
    /\ hist[sid] = "started" /\ ~HasSession(sessions, sid)
    /\ hist[other] = "started"
    /\ \E i \in 1..Len(sessions) :
         /\ sessions[i].sessionId = other
         /\ sessions[i].state = "attention"
         /\ sessions[i].runningTools # <<>>

\* C34: SessionStart for a session that exists and is running leaves it
\* running with no running tools.
C34_RestartOfRunningResetsTools ==
  \A sid \in SessionIds :
    LET post == SessionStartUpdate(sessions, sid) IN
      \A i \in Entries(sessions, sid) :
        sessions[i].state = "running"
          => post[i].state = "running" /\ post[i].runningTools = <<>>

\* C35: PermissionRequest applied to an existing session, whatever its state,
\* leaves it in attention with permissionTool equal to the tool name of the
\* request; a session already in attention takes the new name.
C35_AttentionCarriesRequestedTool ==
  \A sid \in SessionIds, tname \in ToolNames \cup {Undefined} :
    LET post == PermissionRequestUpdate(sessions, sid, tname) IN
      /\ Len(post) = Len(sessions)
      /\ \A i \in Entries(sessions, sid) :
           post[i].state = "attention" /\ post[i].permissionTool = tname

\* one session is in attention for a named tool and another in attention
\* with no tool name: a further request gives either a name it does not have
C35_Witness ==
  \E i, j \in 1..Len(sessions) :
    /\ sessions[i].state = "attention" /\ sessions[i].permissionTool \in ToolNames
    /\ sessions[j].state = "attention" /\ sessions[j].permissionTool = Undefined

\* the running tools of every session of a registry, by position
ToolsOf(reg) == [i \in 1..Len(reg) |-> reg[i].runningTools]

\* C40: Notification / SubagentStop / UserPromptSubmit, PermissionRequest,
\* PreCompact, the Stale event and the callback of a stale timeout leave the
\* running tools of every session as they are, so a session in attention,
\* compacting or stale can still list running tools.
C40_StateEventsKeepTools ==
  \A sid \in SessionIds :
    /\ ToolsOf(ActivityUpdate(sessions, sid)) = ToolsOf(sessions)
    /\ \A tname \in ToolNames \cup {Undefined} :
         ToolsOf(PermissionRequestUpdate(sessions, sid, tname)) = ToolsOf(sessions)
    /\ ToolsOf(PreCompactUpdate(sessions, sid)) = ToolsOf(sessions)
    /\ \A now \in Times :
         ToolsOf(StaleUpdate(sessions, sid, now)) = ToolsOf(sessions)
    /\ ToolsOf(StaleTimerCallback(sessions, sid)) = ToolsOf(sessions)

\* one session is compacting and another stale, each with two running tools
C40_Witness ==
  \E i, j \in 1..Len(sessions) :
    /\ sessions[i].state = "compacting" /\ Len(sessions[i].runningTools) = 2
    /\ sessions[j].state = "stale" /\ Len(sessions[j].runningTools) = 2

\* C33 (SpecCycle): PostToolUse leaves the state of the session as it is, in
\* each of the six states, and leaves its running tools without the entry of
\* the tool id and otherwise as they were, each remaining entry at its
\* relative position; PreToolUse puts a tool that is not running at the end.
\* So the running tools are always in the order they were started.
C33_CompletionKeepsStateAndOrder ==
  \A sid \in SessionIds :
    /\ \A tid \in CycleToolIds \cup {Undefined} :
         LET post == PostToolUseUpdate(sessions, sid, tid) IN
           /\ Len(post) = Len(sessions)
           /\ \A i \in 1..Len(sessions) :
                LET pre  == sessions[i].runningTools
                    out  == post[i].runningTools
                    kept == {k \in 1..Len(pre) : pre[k].toolId # tid}
                IN  /\ post[i].state = sessions[i].state
                    /\ sessions[i].sessionId # sid => post[i] = sessions[i]
                    /\ sessions[i].sessionId = sid =>
                         /\ Len(out) = Cardinality(kept)
                         /\ \A k \in kept :
                              out[Cardinality({j \in kept : j <= k})] = pre[k]
    /\ \A tid \in CycleToolIds, tname \in ToolNames :
         \A i \in Entries(sessions, sid) :
           ~HasTool(sessions[i], tid) =>
             PreToolUseUpdate(sessions, sid, tid, tname)[i].runningTools
               = Append(sessions[i].runningTools,
                        [toolId |-> tid, toolName |-> tname])

\* a session that is not running lists three tools, the one started last
\* first among the ids: completing the middle one leaves the outer two
C33_Witness ==
  \E i \in 1..Len(sessions) :
    /\ sessions[i].state = "attention"
    /\ Len(sessions[i].runningTools) = 3
    /\ sessions[i].runningTools[1].toolId = "t3"
    /\ sessions[i].runningTools[3].toolId = "t1"

\* C36 (SpecCycle): whenever the row of a running session with at least one
\* running tool is rendered, toolIndex is below the number of running tools,
\* so the tool displayed is one of them; the render committed right after a
\* PostToolUse has shortened the list is among those renders.
C36_ToolIndexInRange ==
  (/\ RowMounted(isExpanded, sessions, CycleSessionId)
   /\ InStateRunning(sessions, CycleSessionId)
   /\ Len(RowTools(sessions)) >= 1)
    => HasCurrentTool(RowTools(sessions), toolIndex)

\* the messages handleEvent can be given for sid: one per case and payload
\* that makes a difference, and one of a type the switch has no case for
MessagesFor(sid) ==
  {[type |-> "PreToolUse", sessionId |-> sid, toolId |-> tid,
    toolName |-> tname, now |-> NoTime] : tid \in ToolIds, tname \in ToolNames}
    \cup {[type |-> "PostToolUse", sessionId |-> sid, toolId |-> tid,
           toolName |-> Undefined, now |-> NoTime] : tid \in ToolIds \cup {Undefined}}
    \cup {[type |-> "PermissionRequest", sessionId |-> sid, toolId |-> Undefined,
           toolName |-> tname, now |-> NoTime] : tname \in ToolNames \cup {Undefined}}
    \cup {[type |-> type, sessionId |-> sid, toolId |-> Undefined,
           toolName |-> Undefined, now |-> now] :
             type \in {"Stop", "Stale"}, now \in Times}
    \cup {[type |-> type, sessionId |-> sid, toolId |-> Undefined,
           toolName |-> Undefined, now |-> NoTime] :
             type \in {"SessionStart", "PreCompact", "SessionEnd", "Notification",
                       "UserPromptSubmit", "SubagentStart"}}

\* handleEvent(msg), with the reading of Date.now() the call makes
Handle(reg, msg) ==
  handleEvent(reg, msg.type, msg.sessionId, msg.toolId, msg.toolName, msg.now)

\* the Session objects of a registry
AsSet(reg) == {reg[i] : i \in 1..Len(reg)}

Spaces(k) == [i \in 1..k |-> " "]

\* the names cmd is a set-name invocation for: cmd is optional whitespace (p
\* tokens), aura, whitespace (m1), set-name, whitespace (m2), a quote, a
\* non-empty name, a quote, optional whitespace (t)
NamesSet(cmd) ==
  LET L == Len(cmd)
  IN  {SubSeq(cmd, q[1] + q[2] + q[3] + 4, L - q[4] - 1) :
         q \in {r \in (0..(L - 7)) \X (1..(L - 5)) \X (1..(L - 5)) \X (0..(L - 7)) :
                  /\ r[1] + r[2] + r[3] + r[4] + 5 <= L
                  /\ cmd = Spaces(r[1]) \o <<"aura">> \o Spaces(r[2])
                             \o <<"set-name">> \o Spaces(r[3]) \o <<"\"">>
                             \o SubSeq(cmd, r[1] + r[2] + r[3] + 4, L - r[4] - 1)
                             \o <<"\"">> \o Spaces(r[4])}}

\* C26: once the PreToolUse hook has been parsed, the AgentEvents it yields
\* (those applied followed by those still pending) are, for tool Bash with a
\* set-name command, ToolStarted for the tool and then SessionNameUpdated with
\* the quoted name, and the session carries that name once both are applied;
\* for any other command or tool they are ToolStarted alone and the session
\* keeps the name it had.
C26_SetNameYieldsToolThenName ==
  LET cmd  == adapterIn.command
      out  == trace \o pending
      tool == ToolStarted(HookSessionId, HookToolId)
  IN  /\ ~parsed => agentSessions[1].name = EarlierName
      /\ parsed =>
           IF adapterIn.toolName = "Bash" /\ NamesSet(cmd) # {}
             THEN \E n \in NamesSet(cmd) :
                    /\ out = <<tool, SessionNameUpdated(HookSessionId, n)>>
                    /\ Len(trace) < 2 => agentSessions[1].name = EarlierName
                    /\ Len(trace) = 2 => agentSessions[1].name = n
             ELSE /\ out = <<tool>>
                  /\ agentSessions[1].name = EarlierName
      /\ Len(trace) >= 1 => HookToolId \in agentSessions[1].runningTools

\* a set-name command with a name of two tokens has been parsed and both of
\* its events applied: the tool is running and the session has the new name
C26_Witness ==
  /\ parsed /\ pending = <<>> /\ Len(trace) = 2
  /\ trace[1].type = "ToolStarted" /\ trace[2].type = "SessionNameUpdated"
  /\ Len(agentSessions[1].name) = 2
  /\ HookToolId \in agentSessions[1].runningTools

\* C27: the bootstrap of a recently modified rollout file with a session_meta
\* line never leaves more than one session, and when it is complete the
\* registry holds exactly the session of session_meta and the events applied
\* are SessionStarted followed by at most 4 events, which are the last events
\* of the file.
C27_BootstrapIsBounded ==
  LET all == EventsFrom(adapterIn.lines, 1)
      further == SubSeq(trace, 2, Len(trace))
  IN  (adapterIn.recent /\ \E i \in 1..Len(adapterIn.lines) :
                              adapterIn.lines[i] = "session_meta")
        => /\ Len(agentSessions) <= 1
           /\ Cardinality({i \in 1..Len(trace) : trace[i].type # "SessionStarted"}) <= 4
           /\ (parsed /\ pending = <<>>)
                => /\ Len(agentSessions) = 1
                   /\ agentSessions[1].sessionId = RolloutSessionId
                   /\ trace[1] = SessionStarted(RolloutSessionId)
                   /\ Len(further) <= 4
                   /\ further = SubSeq(all, Len(all) - Len(further) + 1, Len(all))

\* a file whose lines map to more than 4 events has been bootstrapped: one
\* session, SessionStarted and 4 further events applied
C27_Witness ==
  /\ adapterIn.recent /\ parsed /\ pending = <<>>
  /\ Len(EventsFrom(adapterIn.lines, 1)) > 4
  /\ Len(trace) = 5 /\ Len(agentSessions) = 1

\* ======================================================================
\* Properties of the recent-activity queue (SpecActivity).
\* ======================================================================

\* a sequence with every run of equal consecutive entries reduced to one
Collapse(seq) ==
  LET kept == {i \in 1..Len(seq) : i = 1 \/ seq[i] # seq[i - 1]}
  IN  [k \in 1..Cardinality(kept) |->
         seq[CHOOSE i \in kept : Cardinality({j \in kept : j <= i}) = k]]

\* C37: the recent-activity queue never holds more than 6 labels and never
\* the same label at two consecutive positions, and it is the last 6 entries
\* of the labels of the completed tools, in order of completion, with
\* consecutive duplicates collapsed.
C37_RecentActivityBoundedDeduped ==
  /\ Len(recentActivity) <= 6
  /\ \A i \in 1..(Len(recentActivity) - 1) :
       recentActivity[i] # recentActivity[i + 1]
  /\ recentActivity = LastN(Collapse(completedLabels), 6)

\* eight labels have been pushed, one of them equal to the one before it:
\* the queue is full and the first label has been dropped
C37_Witness ==
  /\ Len(completedLabels) = 8
  /\ Len(Collapse(completedLabels)) = 7
  /\ Len(recentActivity) = 6
  /\ recentActivity[1] = Collapse(completedLabels)[2]

\* ======================================================================
\* Properties of the App component (SpecApp, SpecDrag).
\* ======================================================================

\* C18: a step that takes the number of sessions from more than zero to zero
\* while the list is expanded leaves the list collapsed and not shown.
C18_AutoCollapseOnLastSessionGone ==
  [][(Len(sessions) > 0 /\ Len(sessions') = 0 /\ isExpanded)
       => (~isExpanded' /\ ~ListVisible(isExpanded', sessions'))]_vars

\* the last session has ended and the list is collapsed
C18_Witness ==
  /\ sessions = <<>>
  /\ prevSessionCount = 0
  /\ \E sid \in SessionIds : hist[sid] = "ended"
  /\ ~isExpanded

C20_ClickWithNoSessionsDoesNothing ==
  [][(Len(sessions) = 0 /\ Len(sessions') = 0)
       => (~ListVisible(isExpanded', sessions') /\ isExpanded' = isExpanded)]_vars

\* C21: a drag of the indicator never acts as a click.  The release that
\* ends a press during which the pointer moved sets wasDragged; the step that
\* consumes wasDragged (the click the browser delivers next) leaves isExpanded
\* as it was; and for every movement beyond the threshold the whole gesture
\* press, move, release, click leaves isExpanded as it was.
C21_DragNeverClicks ==
  [][/\ (isDragging /\ hasMoved /\ ~isDragging') => wasDragged'
     /\ (wasDragged /\ ~wasDragged') => isExpanded' = isExpanded
     /\ \A dx, dy \in Deltas :
          (Abs(dx) > DRAG_THRESHOLD \/ Abs(dy) > DRAG_THRESHOLD)
            => ToggleViewExpanded(isExpanded,
                 MouseUpWasDragged(MouseMoveHasMoved(FALSE, dx, dy), FALSE))
               = isExpanded]_vars

\* a drag has been released and its click consumed, and the list that was
\* expanded is still expanded
C21_Witness ==
  /\ ~isDragging /\ hasMoved /\ ~wasDragged
  /\ isExpanded /\ Len(sessions) > 0

\* C22: a press and release during which the pointer moves less than 5
\* pixels is a click: the click that follows toggles the list.
C22_SmallMoveIsClick ==
  \A dx, dy \in Deltas :
    (Abs(dx) < 5 /\ Abs(dy) < 5)
      => ToggleViewExpanded(isExpanded,
           MouseUpWasDragged(MouseMoveHasMoved(FALSE, dx, dy), FALSE))
         = ~isExpanded

\* C39 (SpecClick): a drag suppresses at most the click that ends it.  A
\* press of the 'Toggle View' control toggles the list, also after a drag
\* whose click did not reach the indicator's onClick; and the click of a
\* press during which the pointer did not move beyond the threshold toggles
\* the list.
C39_OnlyReleaseClickIsSuppressed ==
  [][/\ lastInput' = "control" => isExpanded' # isExpanded
     /\ (lastInput' = "click" /\ ~hasMoved) => isExpanded' # isExpanded]_vars

StatesOf(list) == {list[i].state : i \in 1..Len(list)}

Bijections(n) ==
  {f \in [1..n -> 1..n] : \A a, b \in 1..n : f[a] = f[b] => a = b}

\* C16: every permutation of the session array gives the indicator state the
\* array itself gives.
C16_IndicatorOrderIndependent ==
  \A f \in Bijections(Len(snapshot)) :
    getIndicatorState([k \in 1..Len(snapshot) |-> snapshot[f[k]]]) = indicator

\* three sessions in three states, the deciding one last
C16_Witness ==
  /\ Len(snapshot) = 3
  /\ snapshot[1].state = "idle"
  /\ snapshot[2].state = "running"
  /\ snapshot[3].state = "waiting"
  /\ indicator = "waiting"

\* ======================================================================
\* Properties of the session rows (SpecRows).
\* ======================================================================

\* C17: whenever the row of a running session with no running tools displays
\* its placeholder, the text is the one first displayed for that session id.
C17_PlaceholderStablePerSession ==
  \A sid \in SessionIds :
    (/\ ShowsPlaceholder(isExpanded, sessions, sid)
     /\ \E i \in 1..Len(sessions) :
          /\ sessions[i].sessionId = sid
          /\ sessions[i].state = "running"
          /\ sessions[i].runningTools = <<>>)
      => rowPlaceholder[sid] = shownPlaceholder[sid]

\* ======================================================================
\* Properties of the stale timers (SpecTimer, SpecTimerFair).
\* ======================================================================

\* the registry has a session sid in one of the states
InState(reg, sid, states) ==
  \E i \in 1..Len(reg) : reg[i].sessionId = sid /\ reg[i].state \in states

\* C11: a running session stays running over every step in which no event
\* for it is handled and it is not removed: no tick of the clock and no
\* timeout moves it to stale.
C11_RunningNeverGoesStale ==
  [][\A sid \in SessionIds :
       (/\ InState(sessions, sid, {"running"})
        /\ epoch'[sid] = epoch[sid]
        /\ HasSession(sessions', sid))
         => InState(sessions', sid, {"running"})]_vars

\* C12 (P8): a session that is idle, in attention, waiting or compacting
\* becomes stale unless an event for it is handled or it is removed first;
\* and once the timeout of a session has run, no timeout is pending for it
\* until an event for it is handled.
C12_QuietSessionGoesStaleOnce ==
  /\ \A sid \in SessionIds : \A e \in {0, 1} :
       (InState(sessions, sid, {"idle", "attention", "waiting", "compacting"})
          /\ epoch[sid] = e)
         ~> (\/ InState(sessions, sid, {"stale"})
             \/ epoch[sid] # e
             \/ ~HasSession(sessions, sid))
  /\ [][\A sid \in SessionIds :
          (staleTimers[sid] = Fired /\ epoch'[sid] = epoch[sid])
            => ~Pending(staleTimers'[sid])]_vars

\* C29: after handleEvent has handled an event for a session id, a timeout
\* is pending for that id exactly when the session exists and its state is
\* neither running nor stale.
C29_TimerPendingIffQuietState ==
  [][\A sid \in SessionIds :
       epoch'[sid] # epoch[sid]
         => (Pending(staleTimers'[sid])
               <=> InState(sessions', sid,
                           {"idle", "attention", "waiting", "compacting"}))]_vars

\* C30: an event supersedes the pending timeout of its session.  The call
\* leaves a timeout with the full delay, or none; a session becomes stale only
\* when StaleTimeoutTicks ticks have passed since the last event for it; and
\* until then no step other than an event for it or a removal changes its
\* entry.
C30_EventSupersedesTimer ==
  [][\A sid \in SessionIds :
       /\ epoch'[sid] # epoch[sid]
            => staleTimers'[sid] \in {StaleTimeoutTicks, NoTimer}
       /\ (~InState(sessions, sid, {"stale"}) /\ InState(sessions', sid, {"stale"}))
            => sinceEvent[sid] >= StaleTimeoutTicks
       /\ (/\ epoch'[sid] = epoch[sid]
           /\ sinceEvent[sid] < StaleTimeoutTicks
           /\ HasSession(sessions', sid))
            => SessionsOf(sessions', sid) = SessionsOf(sessions, sid)]_vars

\* the last event for a session cancelled a timeout that had partly run
\* down, the full delay has passed since, and the session is stale
C30_Witness ==
  \E sid \in SessionIds :
    /\ superseded[sid]
    /\ sinceEvent[sid] >= StaleTimeoutTicks
    /\ InState(sessions, sid, {"stale"}) /\ staleTimers[sid] = Fired

\* C31: no timeout is pending for a session id the registry does not hold:
\* SessionEnd and clearAll cancel the timeouts of the sessions they remove,
\* and an event for an id that is absent arms none.
C31_NoTimerForAbsentSession ==
  \A sid \in SessionIds : Pending(staleTimers[sid]) => HasSession(sessions, sid)

\* the timeout of one session has run and left it stale, while another
\* session is idle with its timeout pending
C12_Witness ==
  \E sid, other \in SessionIds :
    /\ InState(sessions, sid, {"stale"}) /\ staleTimers[sid] = Fired
    /\ InState(sessions, other, {"idle"}) /\ Pending(staleTimers[other])

=============================================================================
